---- MODULE Spec2Model ----
(***************************************************************************)
(* migrate-lids.py: the one-time migration that resolves @lid JIDs in      *)
(* messages.db from the lid_map of whatsapp.db.                            *)
(*                                                                         *)
(* An identifier is a sequence of tokens: the user part is one token, "@"  *)
(* is a token and the server name is a token ("1@lid" is <<"1","@","lid">>)*)
(* so that split, replace, endswith, LIKE and concatenation are computed   *)
(* on the text and not assumed.  The target store is a chat table (a set   *)
(* of jids, primary key jid) and a message table (rows with SQLite's rowid,*)
(* id, chat_jid, sender; primary key (id, chat_jid); the foreign key is    *)
(* declared but SQLite does not enforce it on a default connection).  The  *)
(* key of the message table is the one the merge presumes: it deletes the  *)
(* rows whose id is also filed under the target before it moves the rest.  *)
(* Identifiers have the JID form user or user@server, with one "@" at most.*)
(***************************************************************************)
EXTENDS Naturals, Sequences, FiniteSets

\* ---------------------------------------------------------------- bounds
MaxMsgs == 3
MaxMap == 2
MaxRuns == 2

\* ------------------------------------------------------------ identifiers
At == "@"
LidSuffix == <<"@", "lid">>
PnSuffix == <<"@", "s.whatsapp.net">>

Jid(user, server) == <<user, At, server>>
Bare(user) == <<user>>

\* ASCII lower-casing of a token (the only upper-case token is "LID")
Lower(tok) == IF tok = "LID" THEN "lid" ELSE tok

\* "@" in s
HasAt(s) == \E i \in 1..Len(s) : s[i] = At

FirstAt(s) == CHOOSE i \in 1..Len(s) : s[i] = At /\ \A j \in 1..(i - 1) : s[j] # At

\* s.split("@")[0] if "@" in s else s
UserPart(s) == IF HasAt(s) THEN SubSeq(s, 1, FirstAt(s) - 1) ELSE s

\* s.endswith("@lid")
EndsWithLid(s) ==
    /\ Len(s) >= 2
    /\ SubSeq(s, Len(s) - 1, Len(s)) = LidSuffix

\* s LIKE '%@lid' : SQLite's LIKE ignores the case of ASCII letters
LikeLid(s) ==
    /\ Len(s) >= 2
    /\ s[Len(s) - 1] = At
    /\ Lower(s[Len(s)]) = "lid"

\* s.replace("@lid", "") : every occurrence, left to right
RECURSIVE ReplaceLid(_)
ReplaceLid(s) ==
    IF Len(s) = 0 THEN << >>
    ELSE IF Len(s) >= 2 /\ SubSeq(s, 1, 2) = LidSuffix
         THEN ReplaceLid(SubSeq(s, 3, Len(s)))
         ELSE <<s[1]>> \o ReplaceLid(Tail(s))

\* chat_jid.replace("@lid", "") if chat_jid.endswith("@lid") else chat_jid
BareLid(chat_jid) == IF EndsWithLid(chat_jid) THEN ReplaceLid(chat_jid) ELSE chat_jid

\* ------------------------------------------------------- the input domain
\* chats the bridge has registered: two anonymized chats and a phone-number chat
ChatJids == { Jid("1", "lid"), Jid("2", "lid"), Jid("5", "s.whatsapp.net") }

\* an anonymized chat whose server name is spelled in upper case
UpperJid == Jid("1", "LID")

\* chat references of messages: registered chats or, the foreign key not
\* being enforced, phone-number chats that have no chat record
MsgChats ==
    { Jid("1", "lid"), Jid("2", "lid"), Jid("5", "s.whatsapp.net"),
      Jid("1", "s.whatsapp.net") }

MsgIds == {"m1", "m2"}

\* sender values: full anonymized JIDs and bare user numbers
SenderVals == { Jid("1", "lid"), Jid("2", "lid"), Bare("1"), Bare("2") }

\* rows of whatsmeow_lid_map (lid, pn): bare numbers as whatsmeow stores
\* them, and full JIDs as the script's comments describe them
E(l, p) == [lid |-> l, pn |-> p]
MapRows ==
    { E(Bare("1"), Bare("5")),
      E(Bare("2"), Bare("5")),
      E(Bare("2"), Bare("1")),
      E(Jid("1", "lid"), Jid("6", "s.whatsapp.net")),
      E(Jid("1", "LID"), Jid("5", "s.whatsapp.net")) }

\* the table's rows in the order SELECT returns them; lid is its key
LidTables ==
    { t \in UNION { [1..n -> MapRows] : n \in 0..MaxMap } :
        \A i, j \in 1..Len(t) : i # j => t[i].lid # t[j].lid }

\* the rowid of the row inserted under (id, chat_jid)
RowId(id, chat_jid) ==
    LET c == CHOOSE n \in 0..3 :
                chat_jid = CASE n = 0 -> Jid("1", "lid")
                             [] n = 1 -> Jid("2", "lid")
                             [] n = 2 -> Jid("5", "s.whatsapp.net")
                             [] n = 3 -> Jid("1", "s.whatsapp.net")
    IN 2 * c + (IF id = "m1" THEN 1 ELSE 2)

Row(id, chat_jid, sender) ==
    [rid |-> RowId(id, chat_jid), id |-> id, chat_jid |-> chat_jid, sender |-> sender]

\* PRIMARY KEY (id, chat_jid)
KeyUnique(messages) ==
    \A r1, r2 \in messages :
        (r1.id = r2.id /\ r1.chat_jid = r2.chat_jid) => r1 = r2

EmptyStore == [chats |-> {}, messages |-> {}]

\* the chat pass's cases: any chats, messages under any chat reference; a
\* message m1 was sent by an anonymized JID, a message m2 by a bare user
SenderOfId(id) == IF id = "m1" THEN Jid("1", "lid") ELSE Bare("2")

ChatStores ==
    { [chats |-> cs, messages |-> { Row(k[1], k[2], SenderOfId(k[1])) : k \in ks }] :
        cs \in SUBSET ChatJids,
        ks \in { x \in SUBSET (MsgIds \X MsgChats) : Cardinality(x) <= MaxMsgs } }

\* stores that hold the upper-case chat, alone or beside the phone-number chat
UpperStores ==
    { [chats |-> {UpperJid} \cup cs,
       messages |-> { Row(id, Jid("5", "s.whatsapp.net"), SenderOfId(id)) : id \in ids }] :
        cs \in SUBSET { Jid("5", "s.whatsapp.net") }, ids \in SUBSET MsgIds }

\* stores with one phone-number chat whose messages carry any sender value
SenderStores ==
    { [chats |-> { Jid("5", "s.whatsapp.net") },
       messages |-> { Row(id, Jid("5", "s.whatsapp.net"), f[id]) : id \in DOMAIN f }] :
        f \in UNION { [ids -> SenderVals] : ids \in SUBSET MsgIds } }

Stores == ChatStores \cup UpperStores \cup SenderStores

\* ------------------------------------------------------------------ state
VARIABLES
    pc,              \* position in the script
    wmExists,        \* os.path.exists(WHATSMEOW_DB)
    msgExists,       \* os.path.exists(MESSAGES_DB)
    source,          \* rows of whatsmeow_lid_map, in SELECT order
    disk,            \* committed content of messages.db
    pre,             \* content of messages.db when the run started
    db,              \* the connection's view inside its open transaction
    wconn,           \* connection to whatsapp.db: "unopened" | "closed"
    mconn,           \* connection to messages.db: "unopened" | "open" | "closed"
    lid_map,         \* dict returned by load_lid_map, in insertion order
    jid_map,
    user_map,
    pending,         \* fetched rows the current loop has not visited yet
    out,             \* the chat pass's outcome lines on stdout
    chats_updated,
    senders_updated,
    bare_updated,
    commits,         \* conn.commit() calls of this run
    exitCode,        \* -1 while the process runs
    runs             \* invocations of the script so far

vars ==
    << pc, wmExists, msgExists, source, disk, pre, db, wconn, mconn, lid_map,
       jid_map, user_map, pending, out, chats_updated, senders_updated,
       bare_updated, commits, exitCode, runs >>

NoMap == [k \in {} |-> << >>]
Running == 0 - 1

Init ==
    /\ wmExists \in BOOLEAN
    /\ msgExists \in BOOLEAN
    /\ source \in (IF wmExists THEN LidTables ELSE { << >> })
    /\ disk \in (IF msgExists
                 THEN (IF wmExists THEN Stores ELSE SenderStores)
                 ELSE { EmptyStore })
    /\ pre = disk
    /\ db = EmptyStore
    /\ pc = "start"
    /\ wconn = "unopened"
    /\ mconn = "unopened"
    /\ lid_map = << >>
    /\ jid_map = NoMap
    /\ user_map = NoMap
    /\ pending = {}
    /\ out = << >>
    /\ chats_updated = 0
    /\ senders_updated = 0
    /\ bare_updated = 0
    /\ commits = 0
    /\ exitCode = Running
    /\ runs = 1

\* ------------------------------------------------------------- __main__
\* variant: the check of MESSAGES_DB is missing
StoresPresentWhatsmeowOnly == wmExists

StoresPresent == wmExists /\ msgExists

Main ==
    /\ pc = "start"
    /\ IF StoresPresent
       THEN /\ pc' = "load"
            /\ exitCode' = exitCode
       ELSE /\ pc' = "exited"
            /\ exitCode' = 1
    /\ UNCHANGED << wmExists, msgExists, source, disk, pre, db, wconn, mconn,
                    lid_map, jid_map, user_map, pending, out, chats_updated,
                    senders_updated, bare_updated, commits, runs >>

\* ---------------------------------------------------------- load_lid_map
\* position of key k in the dict d (0 when absent)
KeyPos(d, k) ==
    IF \E i \in 1..Len(d) : d[i].lid = k
    THEN CHOOSE i \in 1..Len(d) : d[i].lid = k
    ELSE 0

\* lid_map[lid] = pn for every fetched row: a repeated key keeps its place
RECURSIVE DictOf(_, _)
DictOf(rows, n) ==
    IF n = 0 THEN << >>
    ELSE LET d == DictOf(rows, n - 1)
             i == KeyPos(d, rows[n].lid)
         IN IF i = 0 THEN Append(d, rows[n])
            ELSE [d EXCEPT ![i] = rows[n]]

LoadLidMap ==
    /\ pc = "load"
    /\ lid_map' = DictOf(source, Len(source))
    /\ wconn' = "closed"
    /\ pc' = "connect"
    /\ UNCHANGED << wmExists, msgExists, source, disk, pre, db, mconn, jid_map,
                    user_map, pending, out, chats_updated, senders_updated,
                    bare_updated, commits, exitCode, runs >>

\* ----------------------------------------- migrate_messages_db: the maps
Put(m, k, v) == [x \in (DOMAIN m) \cup {k} |-> IF x = k THEN v ELSE m[x]]

RECURSIVE JidMapOf(_, _)
JidMapOf(d, n) ==
    IF n = 0 THEN NoMap
    ELSE Put(JidMapOf(d, n - 1), d[n].lid, d[n].pn)

RECURSIVE UserMapOf(_, _)
UserMapOf(d, n) ==
    IF n = 0 THEN NoMap
    ELSE Put(UserMapOf(d, n - 1), UserPart(d[n].lid), UserPart(d[n].pn))

\* SELECT jid FROM chats WHERE jid LIKE '%@lid'
LidChats(store) == { c \in store.chats : LikeLid(c) }

Connect ==
    /\ pc = "connect"
    /\ mconn' = "open"
    /\ db' = disk
    /\ jid_map' = JidMapOf(lid_map, Len(lid_map))
    /\ user_map' = UserMapOf(lid_map, Len(lid_map))
    /\ pending' = LidChats(disk)
    /\ pc' = "chats"
    /\ UNCHANGED << wmExists, msgExists, source, disk, pre, wconn, lid_map, out,
                    chats_updated, senders_updated, bare_updated, commits,
                    exitCode, runs >>

\* --------------------------------------- migrate_messages_db: chats table
NotFound == [found |-> FALSE, new_jid |-> << >>]
Found(j) == [found |-> TRUE, new_jid |-> j]

\* variant: the two lookups in the sender pass's order
ChatLookupFullFirst(um, jm, chat_jid) ==
    IF chat_jid \in DOMAIN jm
    THEN Found(jm[chat_jid])
    ELSE IF BareLid(chat_jid) \in DOMAIN um
         THEN Found(um[BareLid(chat_jid)] \o PnSuffix)
         ELSE NotFound

\* the loop body's lookup: user_map by the bare form, else jid_map by the jid
ChatLookup(um, jm, chat_jid) ==
    IF BareLid(chat_jid) \in DOMAIN um
    THEN Found(um[BareLid(chat_jid)] \o PnSuffix)
    ELSE IF chat_jid \in DOMAIN jm
         THEN Found(jm[chat_jid])
         ELSE NotFound

\* variant: the DELETE without its id IN (...) condition
DuplicatesAll(messages, chat_jid, new_jid) ==
    { m1 \in messages : m1.chat_jid = chat_jid }

\* rows the merge's DELETE removes: under chat_jid, with an id also under new_jid
Duplicates(messages, chat_jid, new_jid) ==
    { m1 \in messages :
        /\ m1.chat_jid = chat_jid
        /\ \E m2 \in messages : m2.chat_jid = new_jid /\ m2.id = m1.id }

\* variant: the messages are not cascaded
SetChatJidNone(messages, chat_jid, new_jid) == messages

\* UPDATE messages SET chat_jid = new_jid WHERE chat_jid = chat_jid
SetChatJid(messages, chat_jid, new_jid) ==
    { IF r.chat_jid = chat_jid THEN [r EXCEPT !.chat_jid = new_jid] ELSE r :
        r \in messages }

\* the UPDATE raises sqlite3.IntegrityError when it would repeat a key
IntegrityError(messages, chat_jid, new_jid) ==
    ~KeyUnique(SetChatJid(messages, chat_jid, new_jid))

\* variant: the chat record is not renamed
SetJidNone(chats, chat_jid, new_jid) == chats

\* UPDATE chats SET jid = new_jid WHERE jid = chat_jid
SetJid(chats, chat_jid, new_jid) ==
    { IF c = chat_jid THEN new_jid ELSE c : c \in chats }

Merged(c, n, d, m) == [kind |-> "MERGED", jid |-> c, new_jid |-> n, dupes |-> d, moved |-> m]
Renamed(c, n) == [kind |-> "RENAMED", jid |-> c, new_jid |-> n, dupes |-> 0, moved |-> 0]
NoMapping(c) == [kind |-> "NO MAPPING", jid |-> c, new_jid |-> << >>, dupes |-> 0, moved |-> 0]

ChatFrame ==
    UNCHANGED << wmExists, msgExists, source, disk, pre, wconn, lid_map, jid_map,
                 user_map, senders_updated, bare_updated, commits, runs >>

\* target exists: delete the duplicates, move the rest, delete the chat
ChatMerge ==
    \E chat_jid \in pending :
        LET look == ChatLookup(user_map, jid_map, chat_jid)
            new_jid == look.new_jid
            dupes == Duplicates(db.messages, chat_jid, new_jid)
            kept == db.messages \ dupes
            moved == { r \in kept : r.chat_jid = chat_jid }
        IN /\ pc = "chats"
           /\ look.found
           /\ new_jid \in db.chats
           /\ ~IntegrityError(kept, chat_jid, new_jid)
           /\ db' = [chats |-> db.chats \ {chat_jid},
                     messages |-> SetChatJid(kept, chat_jid, new_jid)]
           /\ out' = Append(out, Merged(chat_jid, new_jid, Cardinality(dupes),
                                        Cardinality(moved)))
           /\ chats_updated' = chats_updated + 1
           /\ pending' = pending \ {chat_jid}
           /\ UNCHANGED << pc, mconn, exitCode >>
           /\ ChatFrame

\* variant: a connection in autocommit mode, every statement is persisted
ChatRenameAutocommit ==
    \E chat_jid \in pending :
        LET look == ChatLookup(user_map, jid_map, chat_jid)
            new_jid == look.new_jid
        IN /\ pc = "chats"
           /\ look.found
           /\ new_jid \notin db.chats
           /\ ~IntegrityError(db.messages, chat_jid, new_jid)
           /\ db' = [chats |-> SetJid(db.chats, chat_jid, new_jid),
                     messages |-> SetChatJid(db.messages, chat_jid, new_jid)]
           /\ disk' = db'
           /\ out' = Append(out, Renamed(chat_jid, new_jid))
           /\ chats_updated' = chats_updated + 1
           /\ pending' = pending \ {chat_jid}
           /\ UNCHANGED << pc, mconn, exitCode, wmExists, msgExists, source, pre,
                           wconn, lid_map, jid_map, user_map, senders_updated,
                           bare_updated, commits, runs >>

\* target absent: rename the chat and its messages
ChatRename ==
    \E chat_jid \in pending :
        LET look == ChatLookup(user_map, jid_map, chat_jid)
            new_jid == look.new_jid
        IN /\ pc = "chats"
           /\ look.found
           /\ new_jid \notin db.chats
           /\ ~IntegrityError(db.messages, chat_jid, new_jid)
           /\ db' = [chats |-> SetJid(db.chats, chat_jid, new_jid),
                     messages |-> SetChatJid(db.messages, chat_jid, new_jid)]
           /\ out' = Append(out, Renamed(chat_jid, new_jid))
           /\ chats_updated' = chats_updated + 1
           /\ pending' = pending \ {chat_jid}
           /\ UNCHANGED << pc, mconn, exitCode >>
           /\ ChatFrame

\* the UPDATE of messages raises: the exception ends the process, the
\* connection is dropped with its transaction open and SQLite rolls it back
ChatIntegrityError ==
    \E chat_jid \in pending :
        LET look == ChatLookup(user_map, jid_map, chat_jid)
            new_jid == look.new_jid
            kept == IF new_jid \in db.chats
                    THEN db.messages \ Duplicates(db.messages, chat_jid, new_jid)
                    ELSE db.messages
        IN /\ pc = "chats"
           /\ look.found
           /\ IntegrityError(kept, chat_jid, new_jid)
           /\ pc' = "aborted"
           /\ exitCode' = 1
           /\ mconn' = "closed"
           /\ db' = EmptyStore
           /\ pending' = {}
           /\ UNCHANGED << out, chats_updated >>
           /\ ChatFrame

ChatNoMapping ==
    \E chat_jid \in pending :
        /\ pc = "chats"
        /\ ~ChatLookup(user_map, jid_map, chat_jid).found
        /\ out' = Append(out, NoMapping(chat_jid))
        /\ pending' = pending \ {chat_jid}
        /\ UNCHANGED << pc, db, mconn, exitCode, chats_updated >>
        /\ ChatFrame

\* -------------------------------------- migrate_messages_db: sender column
\* SELECT DISTINCT sender FROM messages WHERE sender LIKE '%@lid'
LidSenders(store) == { r.sender : r \in { m \in store.messages : LikeLid(m.sender) } }

\* SELECT DISTINCT sender FROM messages
AllSenders(store) == { r.sender : r \in store.messages }

\* variant: the UPDATE without its WHERE clause
SetSenderAll(messages, sender, new_sender) ==
    { [r EXCEPT !.sender = new_sender] : r \in messages }

\* UPDATE messages SET sender = new_sender WHERE sender = sender
SetSender(messages, sender, new_sender) ==
    { IF r.sender = sender THEN [r EXCEPT !.sender = new_sender] ELSE r :
        r \in messages }

\* variant: the two lookups in the chat pass's order
SenderLookupBareFirst(um, jm, sender) ==
    IF UserPart(sender) \in DOMAIN um
    THEN Found(um[UserPart(sender)])
    ELSE IF sender \in DOMAIN jm
         THEN Found(jm[sender])
         ELSE NotFound

\* the first loop's lookup: jid_map by the sender, else user_map by its user part
SenderLookup(um, jm, sender) ==
    IF sender \in DOMAIN jm
    THEN Found(jm[sender])
    ELSE IF UserPart(sender) \in DOMAIN um
         THEN Found(um[UserPart(sender)])
         ELSE NotFound

\* the second loop's test and lookup
BareLookup(um, sender) ==
    IF ~HasAt(sender) /\ sender \in DOMAIN um
    THEN Found(um[sender])
    ELSE NotFound

SenderFrame ==
    UNCHANGED << wmExists, msgExists, source, disk, pre, wconn, mconn, lid_map,
                 jid_map, user_map, out, chats_updated, commits, exitCode, runs >>

\* the chat loop is over: fetch the senders with a full @lid JID
SelectLidSenders ==
    /\ pc = "chats"
    /\ pending = {}
    /\ pending' = LidSenders(db)
    /\ pc' = "senders"
    /\ UNCHANGED << db, senders_updated, bare_updated >>
    /\ SenderFrame

SenderUpdate ==
    \E sender \in pending :
        LET look == SenderLookup(user_map, jid_map, sender)
        IN /\ pc = "senders"
           /\ look.found
           /\ db' = [db EXCEPT !.messages = SetSender(@, sender, look.new_jid)]
           /\ senders_updated' = senders_updated + 1
           /\ pending' = pending \ {sender}
           /\ UNCHANGED << pc, bare_updated >>
           /\ SenderFrame

SenderSkip ==
    \E sender \in pending :
        /\ pc = "senders"
        /\ ~SenderLookup(user_map, jid_map, sender).found
        /\ pending' = pending \ {sender}
        /\ UNCHANGED << pc, db, senders_updated, bare_updated >>
        /\ SenderFrame

\* the first loop is over: fetch every distinct sender
SelectAllSenders ==
    /\ pc = "senders"
    /\ pending = {}
    /\ pending' = AllSenders(db)
    /\ pc' = "bare"
    /\ UNCHANGED << db, senders_updated, bare_updated >>
    /\ SenderFrame

BareUpdate ==
    \E sender \in pending :
        LET look == BareLookup(user_map, sender)
        IN /\ pc = "bare"
           /\ look.found
           /\ db' = [db EXCEPT !.messages = SetSender(@, sender, look.new_jid)]
           /\ bare_updated' = bare_updated + 1
           /\ pending' = pending \ {sender}
           /\ UNCHANGED << pc, senders_updated >>
           /\ SenderFrame

BareSkip ==
    \E sender \in pending :
        /\ pc = "bare"
        /\ ~BareLookup(user_map, sender).found
        /\ pending' = pending \ {sender}
        /\ UNCHANGED << pc, db, senders_updated, bare_updated >>
        /\ SenderFrame

\* conn.commit(); conn.close(); the script ends
Commit ==
    /\ pc = "bare"
    /\ pending = {}
    /\ disk' = db
    /\ commits' = commits + 1
    /\ mconn' = "closed"
    /\ pc' = "done"
    /\ exitCode' = 0
    /\ UNCHANGED << wmExists, msgExists, source, pre, db, wconn, lid_map, jid_map,
                    user_map, pending, out, chats_updated, senders_updated,
                    bare_updated, runs >>

\* the script is started again on the stores the last run left
Rerun ==
    /\ pc = "done"
    /\ runs < MaxRuns
    /\ runs' = runs + 1
    /\ pre' = disk
    /\ db' = EmptyStore
    /\ pc' = "start"
    /\ wconn' = "unopened"
    /\ mconn' = "unopened"
    /\ lid_map' = << >>
    /\ jid_map' = NoMap
    /\ user_map' = NoMap
    /\ pending' = {}
    /\ out' = << >>
    /\ chats_updated' = 0
    /\ senders_updated' = 0
    /\ bare_updated' = 0
    /\ commits' = 0
    /\ exitCode' = Running
    /\ UNCHANGED << wmExists, msgExists, source, disk >>

Next ==
    \/ Main
    \/ LoadLidMap
    \/ Connect
    \/ ChatMerge
    \/ ChatRename
    \/ ChatIntegrityError
    \/ ChatNoMapping
    \/ SelectLidSenders
    \/ SenderUpdate
    \/ SenderSkip
    \/ SelectAllSenders
    \/ BareUpdate
    \/ BareSkip
    \/ Commit
    \/ Rerun

Spec == Init /\ [][Next]_vars

TypeOK ==
    /\ pc \in {"start", "load", "connect", "chats", "senders", "bare", "done",
               "exited", "aborted"}
    /\ KeyUnique(db.messages)
    /\ KeyUnique(disk.messages)
    /\ \A r1, r2 \in db.messages : r1.rid = r2.rid => r1 = r2

\* ======================================================= the properties
\* the specification's own terms, stated apart from the script's operators
Anonymized(j) == Len(j) >= 2 /\ j[Len(j) - 1] = "@" /\ j[Len(j)] = "lid"
AnonymizedAnyCase(j) == Len(j) >= 2 /\ j[Len(j) - 1] = "@" /\ j[Len(j)] \in {"lid", "LID"}
Stripped(j) == SubSeq(j, 1, Len(j) - 2)
Stable(user) == user \o <<"@", "s.whatsapp.net">>

\* a chat's mapped target: bare-user map first, full-identifier map second
HasTarget(c) == Stripped(c) \in DOMAIN user_map \/ c \in DOMAIN jid_map
TargetOf(c) ==
    IF Stripped(c) \in DOMAIN user_map THEN Stable(user_map[Stripped(c)]) ELSE jid_map[c]

\* a sender's mapping: full-identifier map first, bare-user map second
UserOf(s) == IF \E i \in 1..Len(s) : s[i] = "@" THEN <<s[1]>> ELSE s
SenderMapped(s) ==
    \/ AnonymizedAnyCase(s) /\ (s \in DOMAIN jid_map \/ UserOf(s) \in DOMAIN user_map)
    \/ Len(s) = 1 /\ s \in DOMAIN user_map
SenderTarget(s) ==
    IF AnonymizedAnyCase(s) /\ s \in DOMAIN jid_map THEN jid_map[s] ELSE user_map[UserOf(s)]

Under(store, c) == { r \in store.messages : r.chat_jid = c }
Survives(r) == \E q \in disk.messages : q.rid = r.rid
FiledUnder(r, t) ==
    \E q \in disk.messages : q.rid = r.rid /\ q.id = r.id /\ q.chat_jid = t
Success == pc = "done" /\ exitCode = 0

\* chats of the run's initial table that the pass renames where the target is new
RenameCase(c) ==
    c \in pre.chats /\ Anonymized(c) /\ HasTarget(c) /\ TargetOf(c) \notin pre.chats
\* ... and those it merges into a chat that exists
MergeCase(c) ==
    c \in pre.chats /\ Anonymized(c) /\ HasTarget(c) /\ TargetOf(c) \in pre.chats

\* another selected chat whose target is the identifier c
RenamedOnto(c) ==
    \E b \in pre.chats \ {c} :
        /\ AnonymizedAnyCase(b)
        /\ \/ Anonymized(b) /\ HasTarget(b) /\ TargetOf(b) = c
           \/ ~Anonymized(b) /\ b \in DOMAIN jid_map /\ jid_map[b] = c

\* C1 as stated: after a successful run, for every initial @lid chat C with a
\* mapped target T that was no chat, T is a chat, C is none and every message
\* row that was under C is under T.
C1_RenamePostcondition ==
    Success =>
        \A c \in pre.chats :
            RenameCase(c) =>
                /\ TargetOf(c) \in disk.chats
                /\ c \notin disk.chats
                /\ \A r \in Under(pre, c) : FiledUnder(r, TargetOf(c))

\* C1 amended: T is a chat, C is none unless another chat was renamed onto
\* C's identifier, and every message row that was under C is under T or was
\* deleted as the duplicate of a message with its id that is under T.
C1_RenameAmended ==
    Success =>
        \A c \in pre.chats :
            RenameCase(c) =>
                /\ TargetOf(c) \in disk.chats
                /\ c \notin disk.chats \/ RenamedOnto(c)
                /\ \A r \in Under(pre, c) :
                      \/ FiledUnder(r, TargetOf(c))
                      \/ /\ ~Survives(r)
                         /\ \E q \in Under(disk, TargetOf(c)) : q.id = r.id

\* two initial chats were migrated to one new target and a row of the second
\* was deleted as a duplicate
C1_Witness ==
    /\ Success
    /\ \E c \in pre.chats :
          /\ RenameCase(c)
          /\ \E r \in Under(pre, c) : ~Survives(r)
          /\ \E r \in Under(pre, c) : FiledUnder(r, TargetOf(c))

\* C2 as stated: after a successful run, for every initial @lid chat C whose
\* mapped target T was a chat, T is a chat, C is none, every row of C whose id
\* was under T is removed and T's row kept, every other row of C is under T.
C2_MergePostcondition ==
    Success =>
        \A c \in pre.chats :
            MergeCase(c) =>
                /\ TargetOf(c) \in disk.chats
                /\ c \notin disk.chats
                /\ \A r \in Under(pre, c) :
                      IF \E t \in Under(pre, TargetOf(c)) : t.id = r.id
                      THEN /\ ~Survives(r)
                           /\ \A t \in Under(pre, TargetOf(c)) :
                                 t.id = r.id => FiledUnder(t, TargetOf(c))
                      ELSE FiledUnder(r, TargetOf(c))

\* C2 amended: a row of C whose id was not under T is under T, or was deleted
\* as the duplicate of a message with its id that an earlier chat of the same
\* target brought under T; C is none unless another chat was renamed onto it.
C2_MergeAmended ==
    Success =>
        \A c \in pre.chats :
            MergeCase(c) =>
                /\ TargetOf(c) \in disk.chats
                /\ c \notin disk.chats \/ RenamedOnto(c)
                /\ \A t \in Under(pre, TargetOf(c)) : FiledUnder(t, TargetOf(c))
                /\ \A r \in Under(pre, c) :
                      IF \E t \in Under(pre, TargetOf(c)) : t.id = r.id
                      THEN ~Survives(r)
                      ELSE \/ FiledUnder(r, TargetOf(c))
                           \/ /\ ~Survives(r)
                              /\ \E q \in Under(disk, TargetOf(c)) : q.id = r.id

\* a merge that removed a colliding row, kept the target's and moved another
C2_Witness ==
    /\ Success
    /\ \E c \in pre.chats :
          /\ MergeCase(c)
          /\ \E r \in Under(pre, c), t \in Under(pre, TargetOf(c)) :
                t.id = r.id /\ ~Survives(r) /\ FiledUnder(t, TargetOf(c))
          /\ \E r \in Under(pre, c) :
                /\ \A t \in Under(pre, TargetOf(c)) : t.id # r.id
                /\ FiledUnder(r, TargetOf(c))

\* C3 as stated: after a successful run, for every sender value S of the
\* initial table that has a mapping to S', no row has sender S and every row
\* that had sender S has sender S'.
C3_SenderPostcondition ==
    Success =>
        \A s \in { r.sender : r \in pre.messages } :
            (Anonymized(s) \/ Len(s) = 1) /\ SenderMapped(s) =>
                /\ \A q \in disk.messages : q.sender # s
                /\ \A r \in pre.messages, q \in disk.messages :
                      (r.sender = s /\ q.rid = r.rid) => q.sender = SenderTarget(s)

\* C4 as stated: a second successful run with the same mapping leaves the
\* store as the first run left it.
C4_Idempotent ==
    (Success /\ runs >= 2) => disk = pre

\* C5 as stated: after a successful run, an @lid chat found in neither map is
\* still a chat and its rows are still under it; a row whose sender has no
\* mapping has its sender; a chat not ending with '@lid' is still a chat.
C5_UnmappedUntouched ==
    Success =>
        /\ \A c \in pre.chats :
              (Anonymized(c) /\ ~HasTarget(c)) =>
                  c \in disk.chats /\ \A r \in Under(pre, c) : FiledUnder(r, c)
        /\ \A r \in pre.messages, q \in disk.messages :
              (~SenderMapped(r.sender) /\ q.rid = r.rid) => q.sender = r.sender
        /\ \A c \in pre.chats : ~Anonymized(c) => c \in disk.chats

\* C5 amended: the last part holds of the chats that do not end with '@lid'
\* in any letter case, those the pass's case-insensitive LIKE does not select.
C5_UnmappedAmended ==
    Success =>
        /\ \A c \in pre.chats :
              (Anonymized(c) /\ ~HasTarget(c)) =>
                  c \in disk.chats /\ \A r \in Under(pre, c) : FiledUnder(r, c)
        /\ \A r \in pre.messages, q \in disk.messages :
              (~SenderMapped(r.sender) /\ q.rid = r.rid) => q.sender = r.sender
        /\ \A c \in pre.chats : ~AnonymizedAnyCase(c) => c \in disk.chats

\* a run that migrated a chat and rewrote a sender beside an unmapped chat
\* with a message, a message of an unmapped sender and a phone-number chat
C5_Witness ==
    /\ Success
    /\ chats_updated >= 1
    /\ senders_updated >= 1
    /\ \E c \in pre.chats : Anonymized(c) /\ ~HasTarget(c) /\ Under(pre, c) # {}
    /\ \E r \in pre.messages : ~SenderMapped(r.sender) /\ Survives(r)
    /\ \E c \in pre.chats : ~AnonymizedAnyCase(c)

\* C6: the store on disk is the store the run started with until the one
\* commit that ends the three passes; a run that a database error aborts has
\* committed nothing and leaves the store it found.
C6_AllOrNothing ==
    /\ pc # "done" => (disk = pre /\ commits = 0)
    /\ pc = "done" => (commits = 1 /\ disk = db /\ pending = {})
    /\ pc = "aborted" => (exitCode = 1 /\ mconn = "closed")

\* a run aborted by an IntegrityError after it had renamed a chat
C6_Witness ==
    /\ pc = "aborted"
    /\ chats_updated >= 1
    /\ \E i \in 1..Len(out) : out[i].kind = "RENAMED" /\ out[i].jid \in disk.chats

\* C7: with a store file missing the process exits with 1 having opened no
\* connection and read or changed nothing; with both present a run that
\* no error aborts ends with 0; the connection to messages.db is opened
\* only after the connection to whatsapp.db was closed.
C7_FailFast ==
    /\ (~wmExists \/ ~msgExists) =>
          /\ pc \in {"start", "exited"}
          /\ wconn = "unopened" /\ mconn = "unopened"
          /\ lid_map = << >> /\ disk = pre /\ commits = 0
          /\ pc = "exited" => exitCode = 1
    /\ (wmExists /\ msgExists) =>
          /\ pc # "exited"
          /\ (exitCode # Running /\ pc # "aborted") => (pc = "done" /\ exitCode = 0)
    /\ pc = "done" => exitCode = 0
    /\ mconn # "unopened" => wconn = "closed"

\* the process ended with 1 because messages.db alone is missing
C7_Witness ==
    pc = "exited" /\ exitCode = 1 /\ wmExists /\ ~msgExists /\ Len(source) > 0

\* C8: every outcome the chat pass printed for a chat ending with '@lid'
\* names the bare-user map's target when the bare form is a key of it, also
\* when the full-identifier map has the chat with another value; the
\* full-identifier map's value only otherwise; and that target is a chat.
C8_ChatPrecedence ==
    \A i \in 1..Len(out) :
        Anonymized(out[i].jid) =>
            /\ IF Stripped(out[i].jid) \in DOMAIN user_map
               THEN /\ out[i].kind \in {"MERGED", "RENAMED"}
                    /\ out[i].new_jid = Stable(user_map[Stripped(out[i].jid)])
               ELSE IF out[i].jid \in DOMAIN jid_map
                    THEN /\ out[i].kind \in {"MERGED", "RENAMED"}
                         /\ out[i].new_jid = jid_map[out[i].jid]
                    ELSE out[i].kind = "NO MAPPING"
            /\ (out[i].kind # "NO MAPPING" /\ pc # "aborted") => out[i].new_jid \in db.chats

\* both maps have the chat, with different values, and the bare-user map won
C8_Witness ==
    /\ Success
    /\ \E i \in 1..Len(out) :
          /\ Anonymized(out[i].jid)
          /\ out[i].jid \in DOMAIN jid_map
          /\ Stripped(out[i].jid) \in DOMAIN user_map
          /\ jid_map[out[i].jid] # Stable(user_map[Stripped(out[i].jid)])
          /\ out[i].new_jid = Stable(user_map[Stripped(out[i].jid)])
          /\ out[i].new_jid \in disk.chats

\* the sender the first sender loop writes for the fetched value s
RewrittenSender(s) ==
    IF s \in DOMAIN jid_map THEN jid_map[s]
    ELSE IF UserOf(s) \in DOMAIN user_map THEN user_map[UserOf(s)]
    ELSE s

\* C9: a step of the first sender loop takes one fetched sender value, gives
\* every row with that sender the full-identifier map's value, or on a miss
\* the bare-user map's value of its user part with no suffix, and changes no
\* other sender, no id, no chat reference, no chat and the set of rows.
C9_SenderPrecedence ==
    [][ (pc = "senders" /\ pc' = "senders") =>
          \E s \in pending :
              /\ pending' = pending \ {s}
              /\ db'.chats = db.chats
              /\ { q.rid : q \in db'.messages } = { r.rid : r \in db.messages }
              /\ \A r \in db.messages :
                    \E q \in db'.messages :
                        /\ q.rid = r.rid /\ q.id = r.id /\ q.chat_jid = r.chat_jid
                        /\ q.sender = IF r.sender = s THEN RewrittenSender(s) ELSE r.sender
      ]_vars

\* one sender was rewritten by the full-identifier map although the bare-user
\* map has its user part with another value, one by the bare-user map
C9_Witness ==
    /\ pc = "senders"
    /\ senders_updated = 2
    /\ \E r1, r2 \in pre.messages, q1, q2 \in db.messages :
          /\ q1.rid = r1.rid /\ q2.rid = r2.rid
          /\ Anonymized(r1.sender) /\ r1.sender \in DOMAIN jid_map
          /\ UserOf(r1.sender) \in DOMAIN user_map
          /\ jid_map[r1.sender] # user_map[UserOf(r1.sender)]
          /\ q1.sender = jid_map[r1.sender]
          /\ Anonymized(r2.sender) /\ r2.sender \notin DOMAIN jid_map
          /\ q2.sender = user_map[UserOf(r2.sender)]

Consistent(store) == \A r \in store.messages : r.chat_jid \in store.chats

====
